---- MODULE Spec2Model ----
(***************************************************************************)
(* Glacier Slide: the game session of src/app/page.tsx (the Page           *)
(* component's state, its command handlers, the level fetch and the move   *)
(* animation timer) and the movement helpers of page.tsx and of the        *)
(* boardLogic module (src/unnamed/part_000).                               *)
(*                                                                         *)
(* Every handler runs to completion on the single event loop, and React    *)
(* re-renders between two events, so each handler is one atomic action     *)
(* that reads the latest state.  The two asynchronous operations, the      *)
(* fetch of a level and the window.setTimeout of a move, are a set of      *)
(* requests in flight and a sequence of outstanding timers; either may     *)
(* complete at any later step, in any order.                               *)
(***************************************************************************)
EXTENDS Integers, Sequences, FiniteSets, TLC

VARIABLES
    difficulty,     \* useState<Difficulty>('easy')
    level,          \* useState<BoardConfig | null>(null)
    loading,        \* useState(false)
    error,          \* useState<string | null>(null)
    player,         \* useState<Point>({col: 0, row: 0})
    isAnimating,    \* useState(false)
    won,            \* useState(false)
    wins,           \* useState(0)
    animDuration,   \* useState(0.25), seconds, kept as an exact fraction
    lastRequestId,  \* useRef(0)
    mounted,        \* the initial-load effect has run
    inflight,       \* fetchLevel calls awaiting their response: [id, d]
    timers,         \* outstanding window.setTimeout callbacks of move
    cmd,            \* history: the handler that ran last
    delivered,      \* history: what the gateway answered to the latest request
    arrivals,       \* history: accepted moves whose target was the goal
    slideArgs,      \* movement check: the arguments given to slide
    slideRes        \* movement check: the results of slide

vars == <<difficulty, level, loading, error, player, isAnimating, won, wins,
          animDuration, lastRequestId, mounted, inflight, timers, cmd,
          delivered, arrivals, slideArgs, slideRes>>

sessionVars == <<difficulty, level, loading, error, player, isAnimating, won,
                 wins, animDuration, lastRequestId, mounted, inflight, timers,
                 cmd, delivered, arrivals>>

slideVars == <<slideArgs, slideRes>>

----------------------------------------------------------------------------
(* Bounds of the model *)

\* fetchLevel calls issued in one run (caps lastRequestId)
MaxRequests == 3

\* largest number of rows or columns of a board given to the movement check
MaxDim == 4

----------------------------------------------------------------------------
(* Values *)

Pt(c, r) == [col |-> c, row |-> r]

Directions == {"up", "down", "left", "right"}

Difficulties == {"easy", "medium", "hard", "extreme"}

NoLevel == [null |-> TRUE]

NoError == "null"

LoadError == "Failed to load level"

Abs(x) == IF x < 0 THEN -x ELSE x

Max(a, b) == IF a > b THEN a ELSE b

RECURSIVE GCD(_, _)
GCD(a, b) == IF b = 0 THEN a ELSE GCD(b, a % b)

\* a number of seconds as a fraction in lowest terms
Frac(n, d) == [num |-> n \div GCD(n, d), den |-> d \div GCD(n, d)]

----------------------------------------------------------------------------
(* Game helpers *)

isRock(config, col, row) ==
    \E p \in config.rocks : p.col = col /\ p.row = row

\* fault: the lower bound of the column is off by one (col >= -1)
inBoundsFromMinusOne(config, col, row) ==
    col >= -1 /\ row >= 0 /\ col < config.cols /\ row < config.rows

inBounds(config, col, row) ==
    col >= 0 /\ row >= 0 /\ col < config.cols /\ row < config.rows

\* fault: the exemption of end is forgotten
isWallIgnoresEnd(config, col, row) ==
    LET isEdge  == row = 0 \/ col = 0 \/ row = config.rows - 1 \/ col = config.cols - 1
        isStart == col = config.start.col /\ row = config.start.row
    IN  isEdge /\ ~isStart

isWall(config, col, row) ==
    LET isEdge  == row = 0 \/ col = 0 \/ row = config.rows - 1 \/ col = config.cols - 1
        isStart == col = config.start.col /\ row = config.start.row
        isEnd   == col = config.end.col /\ row = config.end.row
    IN  isEdge /\ ~isStart /\ ~isEnd

isBlocked(config, col, row) ==
    ~inBounds(config, col, row) \/ isRock(config, col, row) \/ isWall(config, col, row)

delta(dir) ==
    CASE dir = "up"    -> <<0, -1>>
      [] dir = "down"  -> <<0, 1>>
      [] dir = "left"  -> <<-1, 0>>
      [] dir = "right" -> <<1, 0>>

\* the while (true) loop of page.tsx's slide: one iteration per unfolding
RECURSIVE slideLoop(_, _, _, _, _)

\* fault: the loop without its isWall test
slideLoopNoWallTest(config, col, row, delta_col, delta_row) ==
    LET new_col == col + delta_col
        new_row == row + delta_row
    IN  IF ~inBounds(config, new_col, new_row) THEN Pt(col, row)
        ELSE IF isRock(config, new_col, new_row) THEN Pt(col, row)
        ELSE slideLoop(config, new_col, new_row, delta_col, delta_row)

\* fault: the rock is tested after the step is taken, the player stops on it
slideLoopStopsOnRock(config, col, row, delta_col, delta_row) ==
    LET new_col == col + delta_col
        new_row == row + delta_row
    IN  IF ~inBounds(config, new_col, new_row) THEN Pt(col, row)
        ELSE IF isRock(config, new_col, new_row) THEN Pt(new_col, new_row)
        ELSE IF isWall(config, new_col, new_row) THEN Pt(col, row)
        ELSE slideLoop(config, new_col, new_row, delta_col, delta_row)

\* fault: an if in place of the while, the player advances one cell at most
slideLoopSingleStep(config, col, row, delta_col, delta_row) ==
    LET new_col == col + delta_col
        new_row == row + delta_row
    IN  IF ~inBounds(config, new_col, new_row) THEN Pt(col, row)
        ELSE IF isRock(config, new_col, new_row) THEN Pt(col, row)
        ELSE IF isWall(config, new_col, new_row) THEN Pt(col, row)
        ELSE Pt(new_col, new_row)

slideLoop(config, col, row, delta_col, delta_row) ==
    LET new_col == col + delta_col
        new_row == row + delta_row
    IN  IF ~inBounds(config, new_col, new_row) THEN Pt(col, row)
        ELSE IF isRock(config, new_col, new_row) THEN Pt(col, row)
        ELSE IF isWall(config, new_col, new_row) THEN Pt(col, row)
        ELSE slideLoop(config, new_col, new_row, delta_col, delta_row)

\* the number of times the body of that loop is entered, the last time
\* (the one that breaks) included
RECURSIVE slideIterations(_, _, _, _, _)
slideIterations(config, col, row, delta_col, delta_row) ==
    LET new_col == col + delta_col
        new_row == row + delta_row
    IN  IF ~inBounds(config, new_col, new_row) THEN 1
        ELSE IF isRock(config, new_col, new_row) THEN 1
        ELSE IF isWall(config, new_col, new_row) THEN 1
        ELSE 1 + slideIterations(config, new_col, new_row, delta_col, delta_row)

slide(config, from, dir) ==
    slideLoop(config, from.col, from.row, delta(dir)[1], delta(dir)[2])

\* the while (true) loop of boardLogic's slide
RECURSIVE boardLogicLoop(_, _, _, _, _)
boardLogicLoop(config, col, row, dx, dy) ==
    LET nextCol == col + dx
        nextRow == row + dy
    IN  IF isBlocked(config, nextCol, nextRow) THEN Pt(col, row)
        ELSE boardLogicLoop(config, nextCol, nextRow, dx, dy)

boardLogicSlide(config, from, dir) ==
    boardLogicLoop(config, from.col, from.row, delta(dir)[1], delta(dir)[2])

\* BASE_TIME = 0.09 seconds per tile
BASE_TIME == Frac(9, 100)

\* fault: steps counts the cells of the walk, the first one included
durationSecCountsCells(config, from, target) ==
    LET dx    == Abs(target.col - from.col)
        dy    == Abs(target.row - from.row)
        steps == dx + dy + 1
    IN  Frac(Max(steps, 1) * BASE_TIME.num * 9,
             BASE_TIME.den * Max(config.rows, config.cols))

\* durationSec of move: max(steps, 1) * (BASE_TIME / (max(rows, cols) / 9))
durationSec(config, from, target) ==
    LET dx    == Abs(target.col - from.col)
        dy    == Abs(target.row - from.row)
        steps == dx + dy
    IN  Frac(Max(steps, 1) * BASE_TIME.num * 9,
             BASE_TIME.den * Max(config.rows, config.cols))

----------------------------------------------------------------------------
(* The Level Provider Gateway: the boards a response may carry *)

BoardA == [rows |-> 5, cols |-> 5, start |-> Pt(1, 1), end |-> Pt(3, 3),
           rocks |-> {Pt(2, 2)}]

BoardB == [rows |-> 4, cols |-> 5, start |-> Pt(1, 1), end |-> Pt(4, 2),
           rocks |-> {Pt(3, 1)}]

\* the 9x9 reference board: ring walls, no interior obstacle
Board9 == [rows |-> 9, cols |-> 9, start |-> Pt(1, 1), end |-> Pt(7, 7),
           rocks |-> {}]

GatewayBoards == {BoardA, BoardB, Board9}

Pending == [kind |-> "pending"]

Failure == [kind |-> "failure"]

Success(b) == [kind |-> "board", board |-> b]

Outcomes == {Failure} \cup {Success(b) : b \in GatewayBoards}

----------------------------------------------------------------------------------------------------------------------------------------
(* The session *)

\* the state of the Page component and of its asynchronous operations
progVars == <<difficulty, level, loading, error, player, isAnimating, won,
              wins, animDuration, lastRequestId, mounted, inflight, timers>>

Init ==
    /\ difficulty = "easy"
    /\ level = NoLevel
    /\ loading = FALSE
    /\ error = NoError
    /\ player = Pt(0, 0)
    /\ isAnimating = FALSE
    /\ won = FALSE
    /\ wins = 0
    /\ animDuration = Frac(1, 4)
    /\ lastRequestId = 0
    /\ mounted = FALSE
    /\ inflight = {}
    /\ timers = <<>>
    /\ cmd = [op |-> "init", arg |-> "", changed |-> FALSE]
    /\ delivered = Pending
    /\ arrivals = 0
    /\ slideArgs = NoLevel
    /\ slideRes = <<>>

\* fault: the id is read before it is incremented (lastRequestId.current++)
fetchLevelPostIncrement(d) ==
    /\ lastRequestId < MaxRequests
    /\ lastRequestId' = lastRequestId + 1
    /\ loading' = TRUE
    /\ error' = NoError
    /\ inflight' = inflight \cup {[id |-> lastRequestId, d |-> d]}

\* fetchLevel up to its first await: allocate the id, setLoading(true),
\* setError(null), and send the request
fetchLevel(d) ==
    /\ lastRequestId < MaxRequests
    /\ lastRequestId' = lastRequestId + 1
    /\ loading' = TRUE
    /\ error' = NoError
    /\ inflight' = inflight \cup {[id |-> lastRequestId + 1, d |-> d]}

\* useEffect(() => { fetchLevel('easy'); }, [fetchLevel])
initialLoad ==
    /\ ~mounted
    /\ mounted' = TRUE
    /\ fetchLevel("easy")
    /\ UNCHANGED <<difficulty, level, player, isAnimating, won, wins,
                   animDuration, timers>>

\* fault: the response is applied without comparing currentRequestId with
\* lastRequestId.current
fetchLevelDoneNoStaleTest(r, outcome) ==
    /\ r \in inflight
    /\ inflight' = inflight \ {r}
    /\ IF outcome.kind = "board"
       THEN /\ level' = outcome.board
            /\ player' = Pt(outcome.board.start.col, outcome.board.start.row)
            /\ won' = FALSE
            /\ UNCHANGED error
       ELSE /\ error' = LoadError
            /\ level' = NoLevel
            /\ UNCHANGED <<player, won>>
    /\ loading' = FALSE
    /\ UNCHANGED <<difficulty, isAnimating, wins, animDuration, lastRequestId,
                   mounted, timers>>

\* fault: setLoading(false) at the end of the try block instead of in finally,
\* so a failure leaves loading set
fetchLevelDoneNoFinally(r, outcome) ==
    /\ r \in inflight
    /\ inflight' = inflight \ {r}
    /\ IF outcome.kind = "board"
       THEN IF r.id # lastRequestId
            THEN UNCHANGED <<level, player, won, error, loading>>
            ELSE /\ level' = outcome.board
                 /\ player' = Pt(outcome.board.start.col, outcome.board.start.row)
                 /\ won' = FALSE
                 /\ loading' = FALSE
                 /\ UNCHANGED error
       ELSE IF r.id # lastRequestId
            THEN UNCHANGED <<level, player, won, error, loading>>
            ELSE /\ error' = LoadError
                 /\ level' = NoLevel
                 /\ UNCHANGED <<player, won, loading>>
    /\ UNCHANGED <<difficulty, isAnimating, wins, animDuration, lastRequestId,
                   mounted, timers>>

\* fault: the finally block calls setLoading(false) without comparing the ids
fetchLevelDoneUnguardedFinally(r, outcome) ==
    /\ r \in inflight
    /\ inflight' = inflight \ {r}
    /\ IF outcome.kind = "board"
       THEN IF r.id # lastRequestId
            THEN UNCHANGED <<level, player, won, error>>
            ELSE /\ level' = outcome.board
                 /\ player' = Pt(outcome.board.start.col, outcome.board.start.row)
                 /\ won' = FALSE
                 /\ UNCHANGED error
       ELSE IF r.id # lastRequestId
            THEN UNCHANGED <<level, player, won, error>>
            ELSE /\ error' = LoadError
                 /\ level' = NoLevel
                 /\ UNCHANGED <<player, won>>
    /\ loading' = FALSE
    /\ UNCHANGED <<difficulty, isAnimating, wins, animDuration, lastRequestId,
                   mounted, timers>>

\* fault: the success path without setPlayer(board.start)
fetchLevelDoneKeepsPlayer(r, outcome) ==
    /\ r \in inflight
    /\ inflight' = inflight \ {r}
    /\ IF outcome.kind = "board"
       THEN IF r.id # lastRequestId
            THEN UNCHANGED <<level, player, won, error>>
            ELSE /\ level' = outcome.board
                 /\ won' = FALSE
                 /\ UNCHANGED <<player, error>>
       ELSE IF r.id # lastRequestId
            THEN UNCHANGED <<level, player, won, error>>
            ELSE /\ error' = LoadError
                 /\ level' = NoLevel
                 /\ UNCHANGED <<player, won>>
    /\ IF r.id = lastRequestId
       THEN loading' = FALSE
       ELSE UNCHANGED loading
    /\ UNCHANGED <<difficulty, isAnimating, wins, animDuration, lastRequestId,
                   mounted, timers>>

\* fault: the success path without setWon(false)
fetchLevelDoneKeepsWon(r, outcome) ==
    /\ r \in inflight
    /\ inflight' = inflight \ {r}
    /\ IF outcome.kind = "board"
       THEN IF r.id # lastRequestId
            THEN UNCHANGED <<level, player, won, error>>
            ELSE /\ level' = outcome.board
                 /\ player' = Pt(outcome.board.start.col, outcome.board.start.row)
                 /\ UNCHANGED <<won, error>>
       ELSE IF r.id # lastRequestId
            THEN UNCHANGED <<level, player, won, error>>
            ELSE /\ error' = LoadError
                 /\ level' = NoLevel
                 /\ UNCHANGED <<player, won>>
    /\ IF r.id = lastRequestId
       THEN loading' = FALSE
       ELSE UNCHANGED loading
    /\ UNCHANGED <<difficulty, isAnimating, wins, animDuration, lastRequestId,
                   mounted, timers>>

\* fetchLevel after its awaits, for the request r and the gateway's answer:
\* the try block after the awaits, the catch block and the finally block
fetchLevelDone(r, outcome) ==
    /\ r \in inflight
    /\ inflight' = inflight \ {r}
    /\ IF outcome.kind = "board"
       THEN IF r.id # lastRequestId
            THEN UNCHANGED <<level, player, won, error>>
            ELSE /\ level' = outcome.board
                 /\ player' = Pt(outcome.board.start.col, outcome.board.start.row)
                 /\ won' = FALSE
                 /\ UNCHANGED error
       ELSE IF r.id # lastRequestId
            THEN UNCHANGED <<level, player, won, error>>
            ELSE /\ error' = LoadError
                 /\ level' = NoLevel
                 /\ UNCHANGED <<player, won>>
    /\ IF r.id = lastRequestId
       THEN loading' = FALSE
       ELSE UNCHANGED loading
    /\ UNCHANGED <<difficulty, isAnimating, wins, animDuration, lastRequestId,
                   mounted, timers>>

\* fault: reset fetches a new level whether or not the game is won
resetAlwaysFetches ==
    /\ mounted
    /\ fetchLevel(difficulty)
    /\ UNCHANGED <<level, player, won>>
    /\ UNCHANGED <<difficulty, isAnimating, wins, animDuration, mounted, timers>>

\* fault: reset repositions the player whether or not the game is won
resetAlwaysRepositions ==
    /\ mounted
    /\ IF level = NoLevel
       THEN UNCHANGED <<player, won>>
       ELSE /\ player' = Pt(level.start.col, level.start.row)
            /\ won' = FALSE
    /\ UNCHANGED <<level, lastRequestId, loading, error, inflight>>
    /\ UNCHANGED <<difficulty, isAnimating, wins, animDuration, mounted, timers>>

reset ==
    /\ mounted
    /\ IF won
       THEN /\ fetchLevel(difficulty)
            /\ UNCHANGED <<level, player, won>>
       ELSE /\ IF level = NoLevel
               THEN UNCHANGED <<player, won>>
               ELSE /\ player' = Pt(level.start.col, level.start.row)
                    /\ won' = FALSE
            /\ UNCHANGED <<level, lastRequestId, loading, error, inflight>>
    /\ UNCHANGED <<difficulty, isAnimating, wins, animDuration, mounted, timers>>

\* fault: the request is made for the difficulty of the last render, not for d
handleDifficultyChangeFetchesOld(d) ==
    /\ mounted
    /\ IF loading /\ d = difficulty
       THEN UNCHANGED <<difficulty, lastRequestId, loading, error, inflight>>
       ELSE /\ difficulty' = d
            /\ fetchLevel(difficulty)
    /\ UNCHANGED <<level, player, isAnimating, won, wins, animDuration, mounted,
                   timers>>

\* fault: every click is ignored while a level is loading
handleDifficultyChangeIgnoresAll(d) ==
    /\ mounted
    /\ IF loading
       THEN UNCHANGED <<difficulty, lastRequestId, loading, error, inflight>>
       ELSE /\ difficulty' = d
            /\ fetchLevel(d)
    /\ UNCHANGED <<level, player, isAnimating, won, wins, animDuration, mounted,
                   timers>>

handleDifficultyChange(d) ==
    /\ mounted
    /\ IF loading /\ d = difficulty
       THEN UNCHANGED <<difficulty, lastRequestId, loading, error, inflight>>
       ELSE /\ difficulty' = d
            /\ fetchLevel(d)
    /\ UNCHANGED <<level, player, isAnimating, won, wins, animDuration, mounted,
                   timers>>

\* fault: move without the test of isAnimating
moveNoAnimatingTest(dir) ==
    /\ mounted
    /\ IF level = NoLevel
       THEN UNCHANGED <<player, isAnimating, animDuration, timers>>
       ELSE IF won
       THEN UNCHANGED <<player, isAnimating, animDuration, timers>>
       ELSE LET currentLevel == level
                target == slide(currentLevel, player, dir)
            IN  IF target.row = player.row /\ target.col = player.col
                THEN UNCHANGED <<player, isAnimating, animDuration, timers>>
                ELSE /\ animDuration' = durationSec(level, player, target)
                     /\ isAnimating' = TRUE
                     /\ player' = target
                     /\ timers' = Append(timers, [target |-> target,
                                                  currentLevel |-> currentLevel])
    /\ UNCHANGED <<difficulty, level, loading, error, won, wins, lastRequestId,
                   mounted, inflight>>

\* fault: move without the test that the slide made progress
moveNoProgressTest(dir) ==
    /\ mounted
    /\ IF level = NoLevel
       THEN UNCHANGED <<player, isAnimating, animDuration, timers>>
       ELSE IF isAnimating \/ won
       THEN UNCHANGED <<player, isAnimating, animDuration, timers>>
       ELSE LET currentLevel == level
                target == slide(currentLevel, player, dir)
            IN  /\ animDuration' = durationSec(level, player, target)
                /\ isAnimating' = TRUE
                /\ player' = target
                /\ timers' = Append(timers, [target |-> target,
                                             currentLevel |-> currentLevel])
    /\ UNCHANGED <<difficulty, level, loading, error, won, wins, lastRequestId,
                   mounted, inflight>>

\* fault: move without the test of won
moveNoWonTest(dir) ==
    /\ mounted
    /\ IF level = NoLevel
       THEN UNCHANGED <<player, isAnimating, animDuration, timers>>
       ELSE IF isAnimating
       THEN UNCHANGED <<player, isAnimating, animDuration, timers>>
       ELSE LET currentLevel == level
                target == slide(currentLevel, player, dir)
            IN  IF target.row = player.row /\ target.col = player.col
                THEN UNCHANGED <<player, isAnimating, animDuration, timers>>
                ELSE /\ animDuration' = durationSec(level, player, target)
                     /\ isAnimating' = TRUE
                     /\ player' = target
                     /\ timers' = Append(timers, [target |-> target,
                                                  currentLevel |-> currentLevel])
    /\ UNCHANGED <<difficulty, level, loading, error, won, wins, lastRequestId,
                   mounted, inflight>>

move(dir) ==
    /\ mounted
    /\ IF level = NoLevel
       THEN UNCHANGED <<player, isAnimating, animDuration, timers>>
       ELSE IF isAnimating \/ won
       THEN UNCHANGED <<player, isAnimating, animDuration, timers>>
       ELSE LET currentLevel == level
                target == slide(currentLevel, player, dir)
            IN  IF target.row = player.row /\ target.col = player.col
                THEN UNCHANGED <<player, isAnimating, animDuration, timers>>
                ELSE /\ animDuration' = durationSec(level, player, target)
                     /\ isAnimating' = TRUE
                     /\ player' = target
                     /\ timers' = Append(timers, [target |-> target,
                                                  currentLevel |-> currentLevel])
    /\ UNCHANGED <<difficulty, level, loading, error, won, wins, lastRequestId,
                   mounted, inflight>>

RemoveAt(s, i) == [j \in 1..(Len(s) - 1) |-> IF j < i THEN s[j] ELSE s[j + 1]]

\* fault: the callback counts a win whatever the target was
moveTimeoutAlwaysWins(i) ==
    /\ i \in 1..Len(timers)
    /\ timers' = RemoveAt(timers, i)
    /\ isAnimating' = FALSE
    /\ won' = TRUE
    /\ wins' = wins + 1
    /\ UNCHANGED <<difficulty, level, loading, error, player, animDuration,
                   lastRequestId, mounted, inflight>>

\* the callback move gives to window.setTimeout, for the i-th outstanding timer
moveTimeout(i) ==
    /\ i \in 1..Len(timers)
    /\ timers' = RemoveAt(timers, i)
    /\ isAnimating' = FALSE
    /\ IF /\ timers[i].target.col = timers[i].currentLevel.end.col
          /\ timers[i].target.row = timers[i].currentLevel.end.row
       THEN /\ won' = TRUE
            /\ wins' = wins + 1
       ELSE UNCHANGED <<won, wins>>
    /\ UNCHANGED <<difficulty, level, loading, error, player, animDuration,
                   lastRequestId, mounted, inflight>>

(* The steps of the session: a handler, and the history it leaves.  The     *)
(* history is written from what the step did to the program's state, never *)
(* from the branch the handler took.                                        *)

\* the Session of the specification: what the page shows and decides on
sessionState == <<difficulty, level, loading, error, player, isAnimating, won,
                  wins, animDuration, lastRequestId>>

Ran(op, arg) ==
    cmd' = [op |-> op, arg |-> arg, changed |-> sessionState' # sessionState]

InitialLoad ==
    /\ initialLoad
    /\ Ran("mount", "")
    /\ delivered' = Pending
    /\ UNCHANGED arrivals

Response ==
    \E r \in inflight : \E outcome \in Outcomes :
        /\ fetchLevelDone(r, outcome)
        /\ Ran("response", "")
        /\ delivered' = IF r.id = lastRequestId THEN outcome ELSE delivered
        /\ UNCHANGED arrivals

Reset ==
    /\ reset
    /\ Ran("reset", "")
    /\ delivered' = IF lastRequestId' # lastRequestId THEN Pending ELSE delivered
    /\ UNCHANGED arrivals

ChangeDifficulty ==
    \E d \in Difficulties :
        /\ handleDifficultyChange(d)
        /\ Ran("changeDifficulty", d)
        /\ delivered' = IF lastRequestId' # lastRequestId THEN Pending ELSE delivered
        /\ UNCHANGED arrivals

Move ==
    \E dir \in Directions :
        /\ move(dir)
        /\ Ran("move", dir)
        /\ arrivals' = arrivals + (IF level # NoLevel /\ player' # player
                                      /\ player' = level.end THEN 1 ELSE 0)
        /\ UNCHANGED delivered

Timeout ==
    \E i \in 1..Len(timers) :
        /\ moveTimeout(i)
        /\ Ran("timeout", "")
        /\ UNCHANGED <<delivered, arrivals>>

Next ==
    \/ InitialLoad /\ UNCHANGED slideVars
    \/ Response /\ UNCHANGED slideVars
    \/ Reset /\ UNCHANGED slideVars
    \/ ChangeDifficulty /\ UNCHANGED slideVars
    \/ Move /\ UNCHANGED slideVars
    \/ Timeout /\ UNCHANGED slideVars

Spec == Init /\ [][Next]_vars

----------------------------------------------------------------------------
(* Properties of the session (checked under Spec) *)

\* a response to a request that is no longer the latest one is delivered
StaleDelivered == \E r \in inflight : r.id # lastRequestId /\ r \notin inflight'

\* C1: request race.  Once a newer request has been issued, the completion
\* (success or failure) of an older one changes none of currentBoard,
\* playerPosition, won, error and loading; and once the latest request has
\* completed, the board shown is the one it returned, or none if it failed.
C1_RequestRace ==
    /\ [][StaleDelivered => UNCHANGED <<level, player, won, error, loading>>]_vars
    /\ [](delivered.kind = "board" => level = delivered.board)
    /\ [](delivered.kind = "failure" => level = NoLevel)

\* the latest request answered with a board first, an older one answered last
C1_Witness ==
    /\ cmd.op = "response"
    /\ ~cmd.changed
    /\ lastRequestId >= 2
    /\ inflight = {}
    /\ delivered.kind = "board"
    /\ level = delivered.board

\* C2: whenever won is true and a board is loaded, the player is on the end
\* of the loaded board.
C2_WonOnGoal == (won /\ level # NoLevel) => player = level.end

\* C3: move rejection.  A move issued while no board is loaded, while an
\* animation is in flight or while won is true changes none of
\* playerPosition, won, animationInFlight, winCount and the animation
\* duration, and schedules no timer.
C3_MoveRejection ==
    [][(cmd'.op = "move" /\ (level = NoLevel \/ isAnimating \/ won))
         => UNCHANGED <<player, won, isAnimating, wins, animDuration, timers>>]_vars

\* a move was issued on a won game and left the session as it was
C3_Witness == cmd.op = "move" /\ ~cmd.changed /\ won /\ level # NoLevel

\* C4: a move issued while a level request is in flight, with a board still
\* loaded, leaves playerPosition and animationInFlight unchanged.
C4_MoveWhileLoading ==
    [][(cmd'.op = "move" /\ loading /\ level # NoLevel)
         => UNCHANGED <<player, isAnimating>>]_vars

\* the outstanding timers of moves that arrived at the goal
GoalTimers == {i \in 1..Len(timers) : timers[i].target = timers[i].currentLevel.end}

\* C7: winCount counts the arrivals at the goal, once each.  Every accepted
\* move whose target is the end of its board is either still awaiting its
\* callback or has added exactly one to winCount, no other move adds any,
\* winCount changes only in a timer callback, by one, and never decreases.
C7_WinCountPerArrival ==
    /\ [](wins + Cardinality(GoalTimers) = arrivals)
    /\ [][wins' >= wins]_vars
    /\ [][wins' # wins => (cmd'.op = "timeout" /\ wins' = wins + 1)]_vars

\* the callback of a second arrival at the goal has fired
C7_Witness == cmd.op = "timeout" /\ won /\ wins = 2 /\ arrivals = 2

\* C8: reset while won allocates a new request id, sets loading, dispatches a
\* request for activeDifficulty, and leaves the player and the board alone.
C8_ResetWhileWon ==
    [][(cmd'.op = "reset" /\ won)
         => /\ lastRequestId' = lastRequestId + 1
            /\ loading'
            /\ inflight' = inflight \cup {[id |-> lastRequestId', d |-> difficulty]}
            /\ player' = player
            /\ level' = level
            /\ difficulty' = difficulty]_vars

\* reset has run on a won game: the game is still won and a request is out
C8_Witness == cmd.op = "reset" /\ cmd.changed /\ won /\ loading

\* C9: changeDifficulty(d) while loading with d = activeDifficulty changes
\* nothing and allocates no id; in every other case activeDifficulty becomes
\* d and a new request for d is issued.
C9_ChangeDifficulty ==
    [][cmd'.op = "changeDifficulty"
         => IF loading /\ cmd'.arg = difficulty
            THEN UNCHANGED progVars
            ELSE /\ difficulty' = cmd'.arg
                 /\ lastRequestId' = lastRequestId + 1
                 /\ loading'
                 /\ inflight' = inflight \cup {[id |-> lastRequestId', d |-> cmd'.arg]}]_vars

\* a click on the active difficulty while its level was loading was ignored
C9_Witness == cmd.op = "changeDifficulty" /\ ~cmd.changed /\ loading

\* C10: a failure of the latest request records an error, clears the board
\* and leaves activeDifficulty as it was; and whenever an error is recorded,
\* changeDifficulty(activeDifficulty) is accepted and issues a new request.
C10_FailureThenRetry ==
    /\ [][(delivered = Pending /\ delivered' = Failure)
            => (error' # NoError /\ level' = NoLevel /\ difficulty' = difficulty)]_vars
    /\ [][(error # NoError /\ cmd'.op = "changeDifficulty" /\ cmd'.arg = difficulty)
            => /\ lastRequestId' = lastRequestId + 1
               /\ loading'
               /\ [id |-> lastRequestId', d |-> difficulty] \in inflight']_vars

\* the first request failed and re-selecting easy has issued the second one
C10_Witness ==
    /\ cmd = [op |-> "changeDifficulty", arg |-> "easy", changed |-> TRUE]
    /\ difficulty = "easy"
    /\ lastRequestId = 2
    /\ inflight = {[id |-> 2, d |-> "easy"]}
    /\ level = NoLevel
    /\ loading

\* move(right) is issued on the 9x9 reference board with the player idle on (1,1)
MoveRightOnBoard9 ==
    /\ cmd'.op = "move"
    /\ cmd'.arg = "right"
    /\ level = Board9
    /\ player = Pt(1, 1)
    /\ ~isAnimating
    /\ ~won

\* C12 as stated: that move sets playerPosition to (7,1) and the animation
\* duration to 8 * (BASE_TIME / 1).
C12_EightSteps ==
    [][MoveRightOnBoard9
         => /\ player' = Pt(7, 1)
            /\ animDuration' = Frac(8 * BASE_TIME.num, BASE_TIME.den)]_vars

\* C12, amended: that move sets playerPosition to (7,1) and the animation
\* duration to 6 * (BASE_TIME / 1): the step count is |7 - 1| + |1 - 1| = 6.
C12_SixSteps ==
    [][MoveRightOnBoard9
         => /\ player' = Pt(7, 1)
            /\ animDuration' = Frac(6 * BASE_TIME.num, BASE_TIME.den)]_vars

\* the player has just slid right along row 1 of the reference board, six cells
C12_Witness ==
    /\ cmd = [op |-> "move", arg |-> "right", changed |-> TRUE]
    /\ level = Board9
    /\ player = Pt(7, 1)
    /\ isAnimating
    /\ animDuration = Frac(6 * BASE_TIME.num, BASE_TIME.den)

\* a difficulty button that is accepted in the current state and issues a
\* new level request
RequestAccepted ==
    \E d \in Difficulties :
        ENABLED (handleDifficultyChange(d) /\ lastRequestId' = lastRequestId + 1)

\* the board is loaded, no request is out and the game is not won
Ready == level # NoLevel /\ ~loading /\ ~won

\* C13: the session never gets stuck.  In every reachable state (requests
\* left to issue) some command that issues a new level request is accepted;
\* while loading is shown the latest request is still in flight, so its
\* answer can arrive; and a board answered to the latest request makes the
\* session Ready.
C13_NeverStuck ==
    /\ []((mounted /\ lastRequestId < MaxRequests) => RequestAccepted)
    /\ [](loading => \E r \in inflight : r.id = lastRequestId)
    /\ [][(delivered = Pending /\ delivered'.kind = "board") => Ready']_vars

\* after a failure, with an animation pending, a new request has been accepted
C13_Witness ==
    /\ cmd.op = "changeDifficulty"
    /\ cmd.changed
    /\ level = NoLevel
    /\ Len(timers) = 1
    /\ loading

\* C14: a stale completion, success or failure, is a no-op on the whole
\* session (currentBoard, playerPosition, won, winCount, error, loading,
\* activeDifficulty and the rest of the page's state), and loading is true
\* for as long as the latest request is in flight.
C14_StaleIsNoOp ==
    /\ [][StaleDelivered => UNCHANGED sessionState]_vars
    /\ []((\E r \in inflight : r.id = lastRequestId) => loading)

\* a stale answer was discarded while the latest request is still in flight
C14_Witness ==
    /\ cmd.op = "response"
    /\ ~cmd.changed
    /\ loading
    /\ \E r \in inflight : r.id = lastRequestId

\* C15: a successful completion of the latest request, in one step, replaces
\* currentBoard with the returned board, puts the player on its start,
\* clears won and loading, and leaves winCount and activeDifficulty alone.
C15_SuccessApplied ==
    [][(delivered = Pending /\ delivered'.kind = "board")
         => /\ level' = delivered'.board
            /\ player' = delivered'.board.start
            /\ ~won'
            /\ ~loading'
            /\ wins' = wins
            /\ difficulty' = difficulty]_vars

\* after a win, a board has arrived for the latest request: won is cleared
C15_Witness ==
    /\ cmd.op = "response"
    /\ cmd.changed
    /\ delivered.kind = "board"
    /\ level = delivered.board
    /\ player = level.start
    /\ wins >= 1
    /\ ~won
    /\ timers = <<>>

\* C16: a move on a loaded board, with no animation in flight and the game
\* not won, whose slide target differs from playerPosition sets
\* animationInFlight and moves the player to the target in that same step,
\* scheduling one callback; one whose target is playerPosition changes
\* nothing and schedules none.
C16_AcceptedMove ==
    [][(cmd'.op = "move" /\ level # NoLevel /\ ~isAnimating /\ ~won)
         => IF slide(level, player, cmd'.arg) # player
            THEN /\ isAnimating'
                 /\ player' = slide(level, player, cmd'.arg)
                 /\ Len(timers') = Len(timers) + 1
                 /\ timers'[Len(timers')].target = player'
            ELSE UNCHANGED progVars]_vars

\* a move against a blocked cell was issued on an idle board: nothing moved
C16_Witness ==
    /\ cmd.op = "move"
    /\ ~cmd.changed
    /\ level # NoLevel
    /\ ~isAnimating
    /\ ~won
    /\ timers = <<>>

\* C19: every fetchLevel allocates the id that follows the last one, sets
\* loading, clears the error and sends a request under the new id; the
\* initial load issues one; lastRequestId never decreases, no request in
\* flight has an id above it, and no two requests share an id.
C19_RequestIds ==
    /\ [][lastRequestId' >= lastRequestId]_vars
    /\ [][lastRequestId' # lastRequestId
            => /\ lastRequestId' = lastRequestId + 1
               /\ loading'
               /\ error' = NoError
               /\ \E r \in inflight' \ inflight : r.id = lastRequestId']_vars
    /\ [][cmd'.op = "mount" => lastRequestId' = lastRequestId + 1]_vars
    /\ [](\A r \in inflight : r.id >= 1 /\ r.id <= lastRequestId)
    /\ [](\A r1, r2 \in inflight : r1.id = r2.id => r1 = r2)

\* three requests are in flight under three ids
C19_Witness ==
    /\ lastRequestId = 3
    /\ {r.id : r \in inflight} = {1, 2, 3}
    /\ loading
    /\ error = NoError

\* C20: at most one animation timer is outstanding, and animationInFlight
\* is true exactly while one is.
C20_OneTimer ==
    /\ Len(timers) <= 1
    /\ (isAnimating <=> (Len(timers) = 1))

\* a board was replaced while the timer of a move is outstanding
C20_Witness ==
    /\ cmd.op = "response"
    /\ cmd.changed
    /\ delivered.kind = "board"
    /\ Len(timers) = 1
    /\ isAnimating
    /\ timers[1].currentLevel # level

\* C21: reset while won is false and a board is loaded puts the player on
\* the board's start and leaves won false, the board in place and the
\* request id as it was; reset while won is false and no board is loaded
\* changes nothing.
C21_ResetMidGame ==
    [][(cmd'.op = "reset" /\ ~won)
         => IF level # NoLevel
            THEN /\ player' = level.start
                 /\ ~won'
                 /\ level' = level
                 /\ lastRequestId' = lastRequestId
                 /\ inflight' = inflight
            ELSE UNCHANGED progVars]_vars

\* reset has brought the player back to start on the board in play
C21_Witness ==
    /\ cmd.op = "reset"
    /\ cmd.changed
    /\ ~won
    /\ ~loading
    /\ level # NoLevel
    /\ player = level.start

\* the latest request is still awaiting its answer
LatestInFlight == \E r \in inflight : r.id = lastRequestId

\* C23: loading is true iff the request allocated last has not had its
\* completion delivered; the completion of an older request never changes
\* loading and the completion of the latest one always clears it.
C23_LoadingIffLatestPending ==
    /\ [](loading <=> LatestInFlight)
    /\ [][StaleDelivered => loading' = loading]_vars
    /\ [][(LatestInFlight /\ ~LatestInFlight') => ~loading']_vars

\* the latest request was answered while an older one is still in flight
C23_Witness ==
    /\ cmd.op = "response"
    /\ cmd.changed
    /\ ~loading
    /\ inflight # {}

\* C24: while loading is true the latest request in flight was made for
\* activeDifficulty, so changeDifficulty(d) is ignored exactly when the
\* latest request is in flight and is a request for d.
C24_LatestRequestIsActive ==
    /\ [](loading => \E r \in inflight : r.id = lastRequestId /\ r.d = difficulty)
    /\ [][cmd'.op = "changeDifficulty"
            => ((UNCHANGED progVars)
                  <=> \E r \in inflight : r.id = lastRequestId /\ r.d = cmd'.arg)]_vars

\* reset on a won game has issued a request for a difficulty chosen earlier
C24_Witness ==
    /\ cmd.op = "reset"
    /\ cmd.changed
    /\ won
    /\ loading
    /\ difficulty # "easy"
    /\ \E r \in inflight : r.id = lastRequestId /\ r.d = difficulty

----------------------------------------------------------------------------
(* The movement check: slide applied to boards and positions drawn from a   *)
(* bounded family, start and end on the ring and obstacles on start or end *)
(* included                                                                 *)

Dims == (MaxDim - 1)..MaxDim

RockCells == {Pt(1, 1), Pt(2, 1), Pt(2, 2)}

TestBoards ==
    UNION {
        { [rows |-> r, cols |-> c, start |-> Pt(sc, sr), end |-> e, rocks |-> rk] :
            sc \in 0..(c - 1), sr \in 0..(r - 1),
            e \in {Pt(c - 2, r - 2), Pt(c - 1, 1)},
            rk \in SUBSET RockCells }
        : r \in Dims, c \in Dims }
    \cup GatewayBoards

\* the positions slide is given: every cell and one cell beyond each edge
TestPositions(config) ==
    { Pt(c, r) : c \in (-1)..config.cols, r \in (-1)..config.rows }

SlideInit ==
    /\ difficulty = "easy"
    /\ level = NoLevel
    /\ loading = FALSE
    /\ error = NoError
    /\ player = Pt(0, 0)
    /\ isAnimating = FALSE
    /\ won = FALSE
    /\ wins = 0
    /\ animDuration = Frac(1, 4)
    /\ lastRequestId = 0
    /\ mounted = FALSE
    /\ inflight = {}
    /\ timers = <<>>
    /\ cmd = [op |-> "init", arg |-> "", changed |-> FALSE]
    /\ delivered = Pending
    /\ arrivals = 0
    /\ \E config \in TestBoards :
         \E from \in TestPositions(config) :
           \E dir \in Directions :
             slideArgs = [config |-> config, from |-> from, dir |-> dir]
    /\ slideRes = <<>>

\* slide(config, from, dir), by page.tsx and by boardLogic
SlideOnce ==
    /\ Len(slideRes) = 0
    /\ slideRes' = <<[page  |-> slide(slideArgs.config, slideArgs.from, slideArgs.dir),
                      logic |-> boardLogicSlide(slideArgs.config, slideArgs.from,
                                                slideArgs.dir),
                      iterations |-> slideIterations(slideArgs.config,
                                         slideArgs.from.col, slideArgs.from.row,
                                         delta(slideArgs.dir)[1],
                                         delta(slideArgs.dir)[2])]>>
    /\ UNCHANGED slideArgs
    /\ UNCHANGED sessionVars

\* slide again, from the position the first call returned
SlideAgain ==
    /\ Len(slideRes) = 1
    /\ slideRes' = Append(slideRes,
                     [page  |-> slide(slideArgs.config, slideRes[1].page, slideArgs.dir),
                      logic |-> boardLogicSlide(slideArgs.config, slideRes[1].logic,
                                                slideArgs.dir)])
    /\ UNCHANGED slideArgs
    /\ UNCHANGED sessionVars

\* the tile classification of the position from: isWall, and boardLogic's
\* isBlocked
Classify ==
    /\ Len(slideRes) = 2
    /\ slideRes' = Append(slideRes,
                     [wall    |-> isWall(slideArgs.config, slideArgs.from.col,
                                         slideArgs.from.row),
                      blocked |-> isBlocked(slideArgs.config, slideArgs.from.col,
                                            slideArgs.from.row)])
    /\ UNCHANGED slideArgs
    /\ UNCHANGED sessionVars

SlideNext == SlideOnce \/ SlideAgain \/ Classify

SlideSpec == SlideInit /\ [][SlideNext]_vars

----------------------------------------------------------------------------
(* Properties of slide (checked under SlideSpec) *)

\* start and end are cells of the grid and neither is an obstacle
WellFormed(config) ==
    /\ inBounds(config, config.start.col, config.start.row)
    /\ inBounds(config, config.end.col, config.end.row)
    /\ ~isRock(config, config.start.col, config.start.row)
    /\ ~isRock(config, config.end.col, config.end.row)

\* in bounds, not a wall and not an obstacle
Passable(config, p) ==
    /\ inBounds(config, p.col, p.row)
    /\ ~isWall(config, p.col, p.row)
    /\ ~isRock(config, p.col, p.row)

\* C5: on a well-formed board, slide from start, and from any position that
\* is in bounds and neither wall nor obstacle, returns a position that is in
\* bounds and neither wall nor obstacle, in every direction.
C5_SlideStaysPassable ==
    (/\ Len(slideRes) >= 1
     /\ WellFormed(slideArgs.config)
     /\ \/ slideArgs.from = slideArgs.config.start
        \/ Passable(slideArgs.config, slideArgs.from))
    => /\ Passable(slideArgs.config, slideRes[1].page)
       /\ Passable(slideArgs.config, slideRes[1].logic)

\* slide from the start of a well-formed board has moved the player
C5_Witness ==
    /\ Len(slideRes) >= 1
    /\ WellFormed(slideArgs.config)
    /\ slideArgs.from = slideArgs.config.start
    /\ slideRes[1].page # slideArgs.from
    /\ slideArgs.config.rocks # {}

\* C6: slide is idempotent per direction: sliding again from the position
\* slide returned, in the same direction, returns that position.
C6_SlideIdempotent ==
    Len(slideRes) = 2
    => /\ slideRes[2].page = slideRes[1].page
       /\ slideRes[2].logic = slideRes[1].logic

\* slide was applied twice and its first application moved two cells or more
C6_Witness ==
    /\ Len(slideRes) = 2
    /\ Abs(slideRes[1].page.col - slideArgs.from.col)
         + Abs(slideRes[1].page.row - slideArgs.from.row) >= 2

\* the outer ring: row 0, the last row, column 0, the last column
OnOuterRing(config, p) ==
    \/ p.row = 0
    \/ p.row = config.rows - 1
    \/ p.col = 0
    \/ p.col = config.cols - 1

\* C11: isWall is true of a position iff the position lies on the outer ring
\* and is neither start nor end; start and end are never walls, on the ring
\* or not.
C11_WallIffRingNotStartEnd ==
    Len(slideRes) = 3
    => /\ slideRes[3].wall
            = (/\ OnOuterRing(slideArgs.config, slideArgs.from)
               /\ slideArgs.from # slideArgs.config.start
               /\ slideArgs.from # slideArgs.config.end)
       /\ (slideArgs.from \in {slideArgs.config.start, slideArgs.config.end}
             => ~slideRes[3].wall)

\* end lies on the ring, was classified, and is no wall
C11_Witness ==
    /\ Len(slideRes) = 3
    /\ slideArgs.from = slideArgs.config.end
    /\ slideArgs.from # slideArgs.config.start
    /\ OnOuterRing(slideArgs.config, slideArgs.from)
    /\ ~slideRes[3].wall

\* the k-th cell of the straight walk from the position from in direction dir
WalkCell(from, dir, k) ==
    Pt(from.col + k * delta(dir)[1], from.row + k * delta(dir)[2])

\* res is the last unblocked cell of the walk: the cells after from up to
\* res are unblocked and the cell after res is blocked
LastUnblocked(config, from, dir, res) ==
    \E k \in 0..(Max(config.rows, config.cols) + 1) :
        /\ res = WalkCell(from, dir, k)
        /\ \A j \in 1..k : Passable(config, WalkCell(from, dir, j))
        /\ ~Passable(config, WalkCell(from, dir, k + 1))

\* C17: slide returns the last unblocked cell of the straight walk from the
\* position from: every cell after from up to the result is unblocked and
\* the cell beyond the result is out of bounds, rock or wall.  The result is
\* from when the first step is blocked, and with a rock at (3,1) sliding
\* right from (1,1) stops at (2,1).
C17_LastUnblockedCell ==
    Len(slideRes) >= 1
    => /\ LastUnblocked(slideArgs.config, slideArgs.from, slideArgs.dir,
                        slideRes[1].page)
       /\ LastUnblocked(slideArgs.config, slideArgs.from, slideArgs.dir,
                        slideRes[1].logic)
       /\ (~Passable(slideArgs.config, WalkCell(slideArgs.from, slideArgs.dir, 1))
             => slideRes[1].page = slideArgs.from /\ slideRes[1].logic = slideArgs.from)
       /\ ((Pt(3, 1) \in slideArgs.config.rocks /\ slideArgs.config.cols >= 5
             /\ Pt(2, 1) \notin slideArgs.config.rocks
             /\ slideArgs.from = Pt(1, 1) /\ slideArgs.dir = "right")
             => slideRes[1].page = Pt(2, 1) /\ slideRes[1].logic = Pt(2, 1))

\* the scenario: rock at (3,1), slide right from (1,1), stopped on (2,1)
C17_Witness ==
    /\ Len(slideRes) >= 1
    /\ Pt(3, 1) \in slideArgs.config.rocks
    /\ slideArgs.from = Pt(1, 1)
    /\ slideArgs.dir = "right"
    /\ slideRes[1].page = Pt(2, 1)

\* a cell of the grid
InGrid(config, p) ==
    p.col \in 0..(config.cols - 1) /\ p.row \in 0..(config.rows - 1)

\* C18: from every position of the grid, in every direction, the loop of
\* slide ends within max(rows, cols) iterations, start or end on the outer
\* ring included.
C18_SlideTerminates ==
    (Len(slideRes) >= 1 /\ InGrid(slideArgs.config, slideArgs.from))
    => slideRes[1].iterations <= Max(slideArgs.config.rows, slideArgs.config.cols)

\* a slide from end on the ring across the whole row to start on the ring,
\* which took max(rows, cols) iterations
C18_Witness ==
    /\ Len(slideRes) >= 1
    /\ OnOuterRing(slideArgs.config, slideArgs.config.start)
    /\ slideArgs.from = slideArgs.config.end
    /\ slideRes[1].page = slideArgs.config.start
    /\ slideRes[1].iterations = Max(slideArgs.config.rows, slideArgs.config.cols)

\* C22 as stated: isBlocked is false at start and at end, also when that
\* position is listed among the obstacles.
C22_StartEndNeverBlocked ==
    (Len(slideRes) = 3 /\ slideArgs.from \in {slideArgs.config.start, slideArgs.config.end})
    => ~slideRes[3].blocked

----------------------------------------------------------------------------
(* The player and the board (checked under Spec) *)

\* C25: whenever a board is loaded, the gateway's boards having neither
\* start nor end among their obstacles, the player is in bounds of that
\* board and on neither a wall nor a rock of it.
C25_PlayerOnPassableCell ==
    /\ \A b \in GatewayBoards : WellFormed(b)
    /\ (level # NoLevel => Passable(level, player))

\* reset during the animation of a move: the player is back on start while
\* the timer is outstanding
C25_Witness ==
    /\ cmd.op = "reset"
    /\ cmd.changed
    /\ level # NoLevel
    /\ isAnimating
    /\ player = level.start

====
